---- MODULE Spec2Model ----
(***************************************************************************)
(* Model of timing_practice.cpp: the scope-bound timer `Timing` and the    *)
(* two overloads of the generic wrapper `timeit`.                          *)
(*                                                                         *)
(* Time is counted in nanoseconds, the period of                           *)
(* std::chrono::high_resolution_clock on libstdc++ and libc++.  Clock      *)
(* readings are relative to the moment the program starts; the             *)
(* subtraction `end - start` is exact in the clock's 64-bit integer rep,   *)
(* so only differences matter.  The conversions to duration<float> and     *)
(* duration<double> seconds and the duration_cast to milliseconds are      *)
(* computed bit by bit as IEEE-754 binary32 / binary64 arithmetic.         *)
(***************************************************************************)
EXTENDS Integers, Sequences, FiniteSets

(***************************************************************************)
(* Floating point.  A positive value is [m |-> bits, e |-> exponent]: the  *)
(* significand bits, most significant first (m[1] = 1), standing for       *)
(* 0.m[1]m[2]... * 2^e.  Zero has m = << >>.                               *)
(***************************************************************************)

\* significand width of float (std::chrono::duration<float>, line 23)
FloatDigits == 24

\* significand width of double (std::chrono::duration<double>, lines 69, 106)
DoubleDigits == 53

\* std::nano: nanoseconds per second, the ratio between the clock's period
\* and the period of duration<float> / duration<double>
NanosPerSecond == 1000000000

\* std::milli: milliseconds per second (duration_cast<milliseconds>)
MillisPerSecond == 1000

\* nanoseconds per millisecond
NanosPerMilli == NanosPerSecond \div MillisPerSecond

RECURSIVE Pow2(_)
Pow2(n) == IF n = 0 THEN 1 ELSE 2 * Pow2(n - 1)

Pow2Tab == [k \in 0..30 |-> Pow2(k)]

Max(S) == CHOOSE x \in S : \A y \in S : y <= x

Min(S) == CHOOSE x \in S : \A y \in S : x <= y

\* bit i of n, bit 0 the least significant
Bit(n, i) == (n \div Pow2Tab[i]) % 2

\* number of binary digits of a natural number below 2^31
NBits(n) == IF n = 0 THEN 0 ELSE CHOOSE k \in 1..31 : n \div Pow2Tab[k - 1] = 1

\* binary digits of a natural number, most significant first
Bits(n) == [i \in 1..NBits(n) |-> Bit(n, NBits(n) - i)]

RECURSIVE BitsVal(_)
BitsVal(b) ==
    IF Len(b) = 0 THEN 0
    ELSE IF Len(b) = 1 THEN b[1]
    ELSE LET h == Len(b) \div 2
         IN  BitsVal(SubSeq(b, 1, h)) * Pow2Tab[Len(b) - h]
               + BitsVal(SubSeq(b, h + 1, Len(b)))

Zeros(n) == [i \in 1..n |-> 0]

\* b without its leading zeros
Strip(b) ==
    LET ones == {i \in 1..Len(b) : b[i] = 1}
    IN  IF ones = {} THEN << >> ELSE SubSeq(b, Min(ones), Len(b))

\* b + 1 on a bit sequence of fixed length; carry out of the top is reported
Inc(b) ==
    LET zs == {i \in 1..Len(b) : b[i] = 0}
    IN  IF zs = {} THEN [m |-> Zeros(Len(b)), carry |-> 1]
        ELSE [m |-> [i \in 1..Len(b) |->
                        IF i < Max(zs) THEN b[i] ELSE IF i = Max(zs) THEN 1 ELSE 0],
              carry |-> 0]

\* round-to-nearest, ties-to-even, of the significand b (leading 1), with
\* `sticky` telling whether non-zero bits follow b, to p bits
RoundNearestEven(b, sticky, p) ==
    IF Len(b) <= p
    THEN [m |-> b \o Zeros(p - Len(b)), carry |-> 0]
    ELSE LET keep  == SubSeq(b, 1, p)
             guard == b[p + 1]
             rest  == sticky \/ \E i \in (p + 2)..Len(b) : b[i] = 1
             up    == guard = 1 /\ (rest \/ keep[p] = 1)
             r     == Inc(keep)
         IN  IF ~up THEN [m |-> keep, carry |-> 0]
             ELSE IF r.carry = 1
                  THEN [m |-> <<1>> \o Zeros(p - 1), carry |-> 1]
                  ELSE [m |-> r.m, carry |-> 0]

FZero == [m |-> << >>, e |-> 0]

\* static_cast<Rep>(count) of a non-negative integer count
IntToFloat(n, p) ==
    IF n = 0 THEN FZero
    ELSE LET b == Bits(n)
             r == RoundNearestEven(b, FALSE, p)
         IN  [m |-> r.m, e |-> Len(b) + r.carry]

\* static_cast<integer>(x): the integer part (truncation toward zero)
FloatToInt(x) ==
    IF Len(x.m) = 0 \/ x.e <= 0 THEN 0
    ELSE IF x.e <= Len(x.m) THEN BitsVal(SubSeq(x.m, 1, x.e))
    ELSE BitsVal(x.m) * Pow2Tab[x.e - Len(x.m)]

\* number of trailing zero bits of n > 0
RECURSIVE TwoAdic(_)
TwoAdic(n) == IF n % 2 = 1 THEN 0 ELSE 1 + TwoAdic(n \div 2)

\* long division by an odd divisor below 2^21, ten quotient bits a step:
\* the remainders before each of the n steps, then the final remainder
RECURSIVE Remainders(_, _, _)
Remainders(r, odd, n) ==
    IF n = 0 THEN <<r>>
    ELSE <<r>> \o Remainders((r * 1024) % odd, odd, n - 1)

\* x / den, correctly rounded to p bits; x holds an integer below 2^31
FloatDivInt(x, den, p) ==
    LET a    == FloatToInt(x)
        k    == TwoAdic(den)
        odd  == den \div Pow2Tab[k]
        q    == Bits(a \div odd)
        n    == (p + 22) \div 10 + 1
        rem  == Remainders(a % odd, odd, n)
        frac == [i \in 1..(10 * n) |->
                    Bit((rem[(i - 1) \div 10 + 1] * 1024) \div odd, 9 - ((i - 1) % 10))]
        all  == q \o frac
        sig  == Strip(all)
        r    == RoundNearestEven(sig, rem[n + 1] # 0, p)
    IN  IF a = 0 THEN FZero
        ELSE [m |-> r.m, e |-> Len(q) - (Len(all) - Len(sig)) - k + r.carry]

\* limbs (20 bits each, most significant first) times k plus carry c;
\* the first element of the result is the carry out of the top limb
RECURSIVE MulLimbs(_, _, _)
MulLimbs(limbs, k, c) ==
    IF Len(limbs) = 0 THEN <<c>>
    ELSE LET t == limbs[Len(limbs)] * k + c
         IN  Append(MulLimbs(SubSeq(limbs, 1, Len(limbs) - 1), k, t \div Pow2Tab[20]),
                    t % Pow2Tab[20])

\* x * k, correctly rounded to p bits, for a multiplier k below 2^11
FloatMulInt(x, k, p) ==
    LET nl     == (Len(x.m) + 19) \div 20
        padded == Zeros(20 * nl - Len(x.m)) \o x.m
        limbs  == [j \in 1..nl |-> BitsVal(SubSeq(padded, 20 * (j - 1) + 1, 20 * j))]
        pl     == MulLimbs(limbs, k, 0)
        pbits  == [i \in 1..(20 * (nl + 1)) |->
                      Bit(pl[(i - 1) \div 20 + 1], 19 - ((i - 1) % 20))]
        prod   == Strip(pbits)
        r      == RoundNearestEven(prod, FALSE, p)
    IN  IF Len(x.m) = 0 THEN FZero
        ELSE [m |-> r.m, e |-> x.e - Len(x.m) + Len(prod) + r.carry]

Abs(n) == IF n < 0 THEN 0 - n ELSE n

\* `duration = end - start` (lines 31, 69, 106): the nanosecond count of the
\* clock's duration converted to seconds held in a p-bit floating type
ToSeconds(ns, p) ==
    [neg |-> ns < 0,
     mag |-> FloatDivInt(IntToFloat(Abs(ns), p), NanosPerSecond, p)]

\* std::chrono::duration_cast<std::chrono::milliseconds>(duration).count()
\* (lines 32, 70, 107): seconds * 1000 in the floating type, then truncated
DurationCastMs(s, p) ==
    LET n == FloatToInt(FloatMulInt(s.mag, MillisPerSecond, p))
    IN  IF s.neg THEN 0 - n ELSE n

\* exact truncation toward zero of a nanosecond count to whole milliseconds
TruncMs(ns) == IF ns < 0 THEN 0 - (Abs(ns) \div NanosPerMilli) ELSE ns \div NanosPerMilli

(***************************************************************************)
(* The callables handed to timeit.  The first two are the repository's     *)
(* workloads; the others are the further shapes the template accepts: a    *)
(* callable with a parameter, one that returns a reference, one that       *)
(* throws.                                                                 *)
(***************************************************************************)

\* void anotherMockDatabaseCall(), lines 121-127
AnotherMockDatabaseCall ==
    [name |-> "anotherMockDatabaseCall", ret |-> "void", arity |-> 0,
     sleep |-> NanosPerSecond, prints |-> TRUE, throws |-> FALSE, base |-> 0]

\* int yetAnotherMockDatabaseCall(), lines 129-135
YetAnotherMockDatabaseCall ==
    [name |-> "yetAnotherMockDatabaseCall", ret |-> "value", arity |-> 0,
     sleep |-> NanosPerSecond, prints |-> TRUE, throws |-> FALSE, base |-> 10]

\* int f(int x, int y) { return 10 + x + y; }
AddToArguments ==
    [name |-> "addToArguments", ret |-> "value", arity |-> 2,
     sleep |-> 0, prints |-> FALSE, throws |-> FALSE, base |-> 10]

\* int& f() { return global; }, global holding 7
ReturnReference ==
    [name |-> "returnReference", ret |-> "ref", arity |-> 0,
     sleep |-> 0, prints |-> FALSE, throws |-> FALSE, base |-> 7]

\* void f() { throw E; }
ThrowingCall ==
    [name |-> "throwingCall", ret |-> "void", arity |-> 0,
     sleep |-> 0, prints |-> FALSE, throws |-> TRUE, base |-> 0]

Callables ==
    {AnotherMockDatabaseCall, YetAnotherMockDatabaseCall, AddToArguments,
     ReturnReference, ThrowingCall}

\* the argument lists a callable of the given arity is called with: a named
\* variable (lvalue) holding 1 and a temporary (rvalue) holding 2
ArgLists(f) ==
    IF f.arity = 0 THEN {<< >>}
    ELSE {<<[val |-> 1, cat |-> "lvalue"], [val |-> 2, cat |-> "rvalue"]>>}

\* the error object the throwing callables raise
ErrorOf(f) == "error of " \o f.name

\* what f computes from the arguments it receives
RECURSIVE SumVals(_)
SumVals(a) == IF Len(a) = 0 THEN 0 ELSE a[1].val + SumVals(Tail(a))

ResultOf(f, a) == f.base + SumVals(a)

\* the result of the direct call f(a)
Direct(f, a) ==
    IF f.throws THEN [kind |-> "error", err |-> ErrorOf(f), val |-> 0]
    ELSE IF f.ret = "void" THEN [kind |-> "void", err |-> "", val |-> 0]
    ELSE [kind |-> "value", err |-> "", val |-> ResultOf(f, a)]

\* template argument deduction for Args&&... (lines 44, 77): an lvalue
\* argument deduces T&, an rvalue deduces T
DeduceArgs(a) == [i \in 1..Len(a) |-> IF a[i].cat = "lvalue" THEN "T&" ELSE "T"]

\* std::forward<Args>(args)... (lines 67, 104): what the callable receives
Forward(a) ==
    [i \in 1..Len(a) |->
        [val |-> a[i].val,
         cat |-> IF DeduceArgs(a)[i] = "T&" THEN "lvalue" ELSE "rvalue"]]

\* the overload std::enable_if selects (lines 43, 75-76)
Overload(f) == IF f.ret = "void" THEN "void" ELSE "value"

(***************************************************************************)
(* Bounds of the model.                                                    *)
(***************************************************************************)

\* timing operations (Timing constructions and timeit calls) begun, in all
MaxOps == 2

\* Timing instances alive at once in one thread
MaxDepth == 2

\* times the clock is seen to advance
MaxTicks == 2

\* largest reading of the clock, below 2^31
MaxMono == 2100000000

Threads == {"main", "worker"}

\* amounts of time that pass between two steps: a second and a millisecond,
\* and a nanosecond short of seventeen milliseconds
TickSet == {NanosPerSecond + NanosPerMilli, 17 * NanosPerMilli - 1}

\* a step of the system clock made by the administrator or by NTP
StepBack == 2 * NanosPerMilli

\* the readings `mono` can take: sums of at most n ticks
RECURSIVE MonoValues(_)
MonoValues(n) ==
    IF n = 0 THEN {0}
    ELSE LET prev == MonoValues(n - 1)
         IN  prev \cup UNION {{m + d : d \in {x \in TickSet : x <= MaxMono - m}} : m \in prev}

\* the values `end - start` can take
Elapsed ==
    LET ms == MonoValues(MaxTicks)
    IN  {e - s + k : e \in ms, s \in ms, k \in {0 - StepBack, 0, StepBack}}

\* Timing::~Timing, lines 31-32: through std::chrono::duration<float>
TimingMsOf == [ns \in Elapsed |-> DurationCastMs(ToSeconds(ns, FloatDigits), FloatDigits)]

TimingMs(start, end) == TimingMsOf[end - start]

\* timeit, lines 69-70 and 106-107: through std::chrono::duration<double>
TimeitMsOf == [ns \in Elapsed |-> DurationCastMs(ToSeconds(ns, DoubleDigits), DoubleDigits)]

TimeitMs(start, end) == TimeitMsOf[end - start]

VARIABLES
    is_steady,   \* high_resolution_clock::is_steady of the build
    mono,        \* time elapsed since the program started
    skew,        \* high_resolution_clock's reading minus mono
    clock_ok,    \* whether the clock can be read
    active,      \* the threads that have been started
    th,          \* per thread: mode, live Timing instances, current call
    timing,      \* every Timing instance constructed so far
    calls,       \* every timeit call begun so far
    out,         \* the lines written to std::cout
    nops,        \* operations begun
    nticks       \* ticks taken

vars == <<is_steady, mono, skew, clock_ok, active, th, timing, calls, out, nops, nticks>>

\* std::chrono::high_resolution_clock::now() (lines 26, 30, 66, 68, 103, 105)
Now == mono + skew

NoOutcome == [kind |-> "none", err |-> "", val |-> 0]

Init ==
    /\ is_steady \in BOOLEAN
    /\ mono = 0
    /\ skew = 0
    /\ clock_ok = TRUE
    /\ active = {"main"}
    /\ th = [t \in Threads |-> [mode |-> "run", timers |-> << >>, call |-> 0, err |-> ""]]
    /\ timing = << >>
    /\ calls = << >>
    /\ out = << >>
    /\ nops = 0
    /\ nticks = 0

\* whether some thread is in the middle of a timing operation
Busy(t) == th[t].mode # "run" \/ Len(th[t].timers) > 0

\* time passes while something is being timed
Tick(d) ==
    /\ \E t \in active : Busy(t)
    /\ nticks < MaxTicks
    /\ d <= MaxMono - mono
    /\ mono' = mono + d
    /\ nticks' = nticks + 1
    /\ UNCHANGED <<is_steady, skew, clock_ok, active, th, timing, calls, out, nops>>

\* a clock that is not steady is set back
Adjust ==
    /\ \E t \in active : Busy(t)
    /\ ~is_steady
    /\ skew = 0
    /\ skew' = 0 - StepBack
    /\ UNCHANGED <<is_steady, mono, clock_ok, active, th, timing, calls, out, nops, nticks>>

\* whether another thread is in the middle of a timing operation
OthersBusy(t) == \E u \in active \ {t} : Busy(u)

(***************************************************************************)
(* Scope Timer                                                             *)
(***************************************************************************)

\* Timing::Timing(), lines 25-27
TimingCtor(t) ==
    /\ clock_ok
    /\ th[t].mode = "run"
    /\ nops < MaxOps
    /\ Len(th[t].timers) < MaxDepth
    /\ timing' = Append(timing,
                    [owner |-> t, start |-> Now, end |-> 0, ms |-> 0,
                     state |-> "live", exit |-> "none", read |-> TRUE,
                     enclosing |-> th[t].timers, concurrent |-> OthersBusy(t)])
    /\ th' = [th EXCEPT ![t].timers = Append(@, Len(timing) + 1)]
    /\ nops' = nops + 1
    /\ UNCHANGED <<is_steady, mono, skew, clock_ok, active, calls, out, nticks>>

ReportLine(kind, id, ms) == [kind |-> "report", src |-> kind, id |-> id, ms |-> ms]

TextLine(kind, id) == [kind |-> "text", src |-> kind, id |-> id, ms |-> 0]

\* destruction in the order of construction
FirstConstructed(timers) == timers[1]

\* the automatic object destroyed next when a scope is left: the one
\* constructed last
NextDestroyed(timers) == timers[Len(timers)]

\* a destructor that writes nothing
DtorSilent(id, ms) == << >>

\* what ~Timing() writes, line 33
DtorOutput(id, ms) == <<ReportLine("timing", id, ms)>>

\* the mode of the thread once the instance `id` is gone
AfterDestroy(t, how) ==
    IF Len(th[t].timers) > 1 THEN th[t].mode
    ELSE IF how = "unwind" THEN "failed" ELSE "run"

\* Timing::~Timing(), lines 29-34, run as the scope is left by way `how`
Destroy(t, how, end) ==
    LET id == NextDestroyed(th[t].timers)
        ms == TimingMs(timing[id].start, end)
    IN  /\ timing' = [timing EXCEPT ![id] =
                        [@ EXCEPT !.end = end, !.ms = ms, !.state = "destroyed",
                                  !.exit = how, !.read = clock_ok,
                                  !.concurrent = @ \/ OthersBusy(t)]]
        /\ out' = out \o DtorOutput(id, ms)
        /\ th' = [th EXCEPT ![t].timers = SelectSeq(@, LAMBDA x : x # id),
                            ![t].mode = AfterDestroy(t, how)]

\* control reaches the closing brace of the innermost scope (line 119)
ScopeExit(t) ==
    /\ clock_ok
    /\ th[t].mode = "run"
    /\ Len(th[t].timers) > 0
    /\ Destroy(t, "normal", Now)
    /\ UNCHANGED <<is_steady, mono, skew, clock_ok, active, calls, nops, nticks>>

\* a return statement inside the scopes (line 118): every enclosing scope
\* of the function is left
EarlyReturn(t) ==
    /\ th[t].mode = "run"
    /\ Len(th[t].timers) > 0
    /\ th' = [th EXCEPT ![t].mode = "returning"]
    /\ UNCHANGED <<is_steady, mono, skew, clock_ok, active, timing, calls, out, nops, nticks>>

\* a scope left by a return statement or by stack unwinding
Unwind(t) ==
    /\ clock_ok
    /\ th[t].mode \in {"returning", "unwinding"}
    /\ Len(th[t].timers) > 0
    /\ Destroy(t, IF th[t].mode = "returning" THEN "early" ELSE "unwind", Now)
    /\ UNCHANGED <<is_steady, mono, skew, clock_ok, active, calls, nops, nticks>>

(***************************************************************************)
(* Timing Wrapper                                                          *)
(***************************************************************************)

\* the callable invoked once to be timed and once more for its result
CallFuncTwice(c) ==
    [c EXCEPT !.invoked = @ + 2,
              !.seen = c.args,
              !.ev = @ \o <<"invoke", "invoke">>]

\* func(std::forward<Args>(args)...), lines 67 and 104: one invocation
CallFunc(c) ==
    [c EXCEPT !.invoked = @ + 1,
              !.seen = Forward(c.args),
              !.ev = Append(@, "invoke")]

\* timeit up to the point where the callable is running: the start reading
\* (lines 66, 103) and the call (lines 67, 104); the callable writes its
\* first line and goes to sleep (lines 123-124, 131-132)
TimeitCall(t, f, a) ==
    /\ clock_ok
    /\ th[t].mode = "run"
    /\ nops < MaxOps
    /\ f.sleep <= MaxMono - mono
    /\ calls' = Append(calls,
                   CallFunc([owner |-> t, f |-> f, args |-> a,
                             overload |-> Overload(f), start |-> Now,
                             invoked |-> 0, seen |-> << >>,
                             wake |-> mono + f.sleep, staged |-> 0,
                             end |-> 0, ms |-> 0, state |-> "running",
                             outcome |-> NoOutcome, ev |-> <<"start">>,
                             concurrent |-> OthersBusy(t)]))
    /\ out' = IF f.prints THEN Append(out, TextLine("call", Len(calls) + 1)) ELSE out
    /\ th' = [th EXCEPT ![t].mode = "in_call", ![t].call = Len(calls) + 1]
    /\ nops' = nops + 1
    /\ UNCHANGED <<is_steady, mono, skew, clock_ok, active, timing, nticks>>

\* a wrapper with a catch-all handler around the call
TimeitCatchAll(c, e) ==
    [c EXCEPT !.state = "failed",
              !.outcome = [kind |-> "void", err |-> "", val |-> 0],
              !.ev = Append(@, "catch")]

\* the callable throws: neither overload has a handler, so the rest of
\* timeit (lines 68-71, 105-109) is skipped and the exception leaves it
TimeitOnThrow(c, e) ==
    [c EXCEPT !.state = "failed",
              !.outcome = [kind |-> "error", err |-> e, val |-> 0],
              !.ev = Append(@, "throw")]

\* the callable returns: `auto result = ...` (line 104) holds a copy of
\* what it returned, then the end reading (lines 68, 105) and the
\* conversion (lines 69-70, 106-107)
TimeitOnReturn(c, end) ==
    [c EXCEPT !.state = "measured",
              !.staged = IF c.overload = "value" THEN ResultOf(c.f, c.seen) ELSE 0,
              !.end = end,
              !.ms = TimeitMs(c.start, end),
              !.ev = @ \o <<"complete", "end">>]

\* the callable wakes (sleep_for returns no earlier than asked), writes its
\* last line (lines 125, 133) and returns or throws
CallableDone(t) ==
    LET id == th[t].call
        c  == calls[id]
    IN  /\ clock_ok
        /\ th[t].mode = "in_call"
        /\ mono >= c.wake
        /\ out' = IF c.f.prints THEN Append(out, TextLine("call", id)) ELSE out
        /\ IF c.f.throws
           THEN /\ calls' = [calls EXCEPT ![id] = TimeitOnThrow(c, ErrorOf(c.f))]
                /\ th' = [th EXCEPT ![t].mode = IF Len(th[t].timers) > 0
                                                THEN "unwinding" ELSE "failed",
                                    ![t].call = 0,
                                    ![t].err = calls'[id].outcome.err]
           ELSE /\ calls' = [calls EXCEPT ![id] = TimeitOnReturn(c, Now)]
                /\ th' = [th EXCEPT ![t].mode = "measured"]
        /\ UNCHANGED <<is_steady, mono, skew, clock_ok, active, timing, nops, nticks>>

\* a wrapper that reports before and after the conversion
ReportTwice(id, ms) == <<[kind |-> "report", src |-> "call", id |-> id, ms |-> ms],
                         [kind |-> "report", src |-> "call", id |-> id, ms |-> ms]>>

\* what timeit writes, lines 71 and 108
ReportOutput(id, ms) == <<ReportLine("call", id, ms)>>

\* what a read through the reference returned for a reference-returning
\* callable can give: `return result;` (line 109) binds the returned int& to
\* the local `result`, which is gone when timeit has returned
DanglingReads(c) == {c.staged, 0}

\* what the caller gets from timeit: nothing (line 72), the staged value
\* (line 109), or a read through a dangling reference
Returned(c) ==
    IF c.overload = "void" THEN {[kind |-> "void", err |-> "", val |-> 0]}
    ELSE IF c.f.ret = "ref"
         THEN {[kind |-> "value", err |-> "", val |-> v] : v \in DanglingReads(c)}
         ELSE {[kind |-> "value", err |-> "", val |-> c.staged]}

\* the report (lines 71, 108) and the return to the caller (lines 72, 109)
TimeitReport(t) ==
    LET id == th[t].call
        c  == calls[id]
    IN  /\ th[t].mode = "measured"
        /\ out' = out \o ReportOutput(id, c.ms)
        /\ \E r \in Returned(c) :
              calls' = [calls EXCEPT ![id] =
                           [c EXCEPT !.state = "returned", !.outcome = r,
                                     !.ev = @ \o <<"report", "return">>,
                                     !.concurrent = @ \/ OthersBusy(t)]]
        /\ th' = [th EXCEPT ![t].mode = "run", ![t].call = 0]
        /\ UNCHANGED <<is_steady, mono, skew, clock_ok, active, timing, nops, nticks>>

Next ==
    \/ \E d \in TickSet : Tick(d)
    \/ Adjust
    \/ \E t \in active : TimingCtor(t)
    \/ \E t \in active : ScopeExit(t)
    \/ \E t \in active : EarlyReturn(t)
    \/ \E t \in active : Unwind(t)
    \/ \E t \in active : \E f \in Callables : \E a \in ArgLists(f) : TimeitCall(t, f, a)
    \/ \E t \in active : CallableDone(t)
    \/ \E t \in active : TimeitReport(t)

\* the program as written: one thread, a readable clock
Spec == Init /\ [][Next]_vars

(***************************************************************************)
(* Several threads timing at once.  The repository starts no thread; this  *)
(* is timeit and Timing used from a second thread.                         *)
(***************************************************************************)

Spawn ==
    /\ active # Threads
    /\ nops = 0
    /\ active' = Threads
    /\ UNCHANGED <<is_steady, mono, skew, clock_ok, th, timing, calls, out, nops, nticks>>

NextThreads == Next \/ Spawn

SpecThreads == Init /\ [][NextThreads]_vars

(***************************************************************************)
(* A clock that cannot be read.  high_resolution_clock::now() is noexcept  *)
(* and ~Timing() (line 30) tests nothing: libc++ throws inside             *)
(* now(), which ends the program through std::terminate; libstdc++ does    *)
(* not look at the result of clock_gettime and builds the time_point from  *)
(* a timespec that was never written.                                      *)
(***************************************************************************)

ClockFail ==
    /\ clock_ok
    /\ \E t \in active : Len(th[t].timers) > 0
    /\ clock_ok' = FALSE
    /\ UNCHANGED <<is_steady, mono, skew, active, th, timing, calls, out, nops, nticks>>

\* the readings an unwritten timespec can give: zero, or what an earlier
\* reading left on the stack
GarbageReadings == {0} \cup {timing[i].start : i \in DOMAIN timing}

\* ~Timing() (lines 29-34) while the clock cannot be read
TimingDtorFault(t, way) ==
    /\ ~clock_ok
    /\ th[t].mode \in {"run", "returning", "unwinding"}
    /\ Len(th[t].timers) > 0
    /\ IF way = "terminate"
       THEN /\ th' = [u \in Threads |-> [th[u] EXCEPT !.mode = "terminated"]]
            /\ UNCHANGED <<timing, out>>
       ELSE \E g \in GarbageReadings :
               Destroy(t, IF th[t].mode = "run" THEN "normal"
                          ELSE IF th[t].mode = "returning" THEN "early" ELSE "unwind", g)
    /\ UNCHANGED <<is_steady, mono, skew, clock_ok, active, calls, nops, nticks>>

NextFault ==
    \/ Next
    \/ ClockFail
    \/ \E t \in active : \E way \in {"terminate", "garbage"} : TimingDtorFault(t, way)

SpecFault == Init /\ [][NextFault]_vars

(***************************************************************************)
(* Properties                                                              *)
(***************************************************************************)

\* the positions in std::cout of the reports of instance or call `id`
Reports(kind, id) ==
    {i \in 1..Len(out) : out[i].kind = "report" /\ out[i].src = kind /\ out[i].id = id}

\* the positions in std::cout of the lines the callable of call `id` wrote
Texts(kind, id) ==
    {i \in 1..Len(out) : out[i].kind = "text" /\ out[i].src = kind /\ out[i].id = id}

Finished(c) == c.state \in {"returned", "failed"}

\* C1: timeit(f, a) gives its caller what the direct call f(a) gives: the
\* value f produced for a callable returning a non-void type, nothing for a
\* void callable, f's error when f throws; and it adds only the report line.
C1_WrapperSameAsDirect ==
    \A i \in DOMAIN calls :
        Finished(calls[i]) =>
            /\ calls[i].outcome = Direct(calls[i].f, calls[i].args)
            /\ Cardinality(Reports("call", i)) <= 1

\* C2: every call of timeit has invoked its callable exactly once, with the
\* arguments passed to timeit, values and value categories alike.
C2_InvokedExactlyOnce ==
    \A i \in DOMAIN calls :
        /\ calls[i].invoked = 1
        /\ calls[i].seen = calls[i].args
        /\ Cardinality({k \in 1..Len(calls[i].ev) : calls[i].ev[k] = "invoke"}) = 1

\* a finished call of a callable taking an lvalue and an rvalue argument
C2_Witness ==
    \E i \in DOMAIN calls :
        /\ calls[i].state = "returned"
        /\ Len(calls[i].args) = 2
        /\ calls[i].outcome.val = 13

\* C3: when the callable throws, timeit lets that very error reach its
\* caller and writes no report line for the call.
C3_ErrorPropagatesUnreported ==
    \A i \in DOMAIN calls :
        calls[i].state = "failed" =>
            /\ calls[i].f.throws
            /\ calls[i].outcome.kind = "error"
            /\ calls[i].outcome.err = ErrorOf(calls[i].f)
            /\ th[calls[i].owner].mode \in {"unwinding", "failed"}
            /\ th[calls[i].owner].err = ErrorOf(calls[i].f)
            /\ Reports("call", i) = {}
            /\ \A k \in 1..Len(calls[i].ev) : calls[i].ev[k] \notin {"end", "report", "return"}

\* a call whose callable threw, the error having reached the caller
C3_Witness ==
    \E i \in DOMAIN calls :
        /\ calls[i].state = "failed"
        /\ th[calls[i].owner].mode = "failed"

\* C4: a Timing instance has written exactly one report line once it is
\* destroyed and none before; it is destroyed on every way out of its scope
\* (falling off the end, return, unwinding), so that a thread that has left
\* its scopes has no live instance.
C4_OneReportPerInstance ==
    /\ \A i \in DOMAIN timing :
          /\ Cardinality(Reports("timing", i)) =
                 (IF timing[i].state = "destroyed" THEN 1 ELSE 0)
          /\ (timing[i].state = "live") <=>
                 (\E k \in 1..Len(th[timing[i].owner].timers) :
                      th[timing[i].owner].timers[k] = i)
          /\ timing[i].state = "destroyed" =>
                 timing[i].exit \in {"normal", "early", "unwind"}
    /\ \A t \in Threads : th[t].mode = "failed" => Len(th[t].timers) = 0

\* an instance destroyed by the unwinding of an exception that left timeit
C4_Witness ==
    \E i \in DOMAIN timing :
        /\ timing[i].state = "destroyed"
        /\ timing[i].exit = "unwind"
        /\ th[timing[i].owner].mode = "failed"

\* C5: of two nested Timing instances the inner one is destroyed and
\* reports first, and every report carries the duration computed from the
\* instance's own start and end readings.
C5_InnerReportsFirst ==
    /\ \A i \in DOMAIN timing : \A j \in DOMAIN timing :
          (\E k \in 1..Len(timing[j].enclosing) : timing[j].enclosing[k] = i) =>
              /\ timing[i].owner = timing[j].owner
              /\ timing[i].state = "destroyed" => timing[j].state = "destroyed"
              /\ \A a \in Reports("timing", i) : \A b \in Reports("timing", j) : b < a
    /\ \A i \in DOMAIN timing : \A a \in Reports("timing", i) :
          out[a].ms = TimingMsOf[timing[i].end - timing[i].start]

\* two nested instances, both destroyed, the outer one alive a second longer
C5_Witness ==
    \E i \in DOMAIN timing : \E j \in DOMAIN timing :
        /\ timing[j].enclosing = <<i>>
        /\ timing[i].state = "destroyed"
        /\ timing[j].state = "destroyed"
        /\ timing[i].ms > timing[j].ms

\* C6: every reported duration is a non-negative number of milliseconds,
\* equal to end - start truncated to whole milliseconds.
C6_TruncatedNonNegative ==
    /\ \A i \in DOMAIN timing : \A a \in Reports("timing", i) :
          /\ out[a].ms >= 0
          /\ out[a].ms = TruncMs(timing[i].end - timing[i].start)
    /\ \A i \in DOMAIN calls : \A a \in Reports("call", i) :
          /\ out[a].ms >= 0
          /\ out[a].ms = TruncMs(calls[i].end - calls[i].start)

\* C7: a call whose callable sleeps for T reports at least T; the calls of
\* the two workloads, which sleep a second, report at least 1000, and the
\* call of yetAnotherMockDatabaseCall gives 10.
C7_ReportedAtLeastSleep ==
    \A i \in DOMAIN calls :
        (calls[i].state = "returned" /\ calls[i].f.sleep > 0) =>
            /\ \A a \in Reports("call", i) :
                  out[a].ms >= calls[i].f.sleep \div NanosPerMilli
            /\ calls[i].f = YetAnotherMockDatabaseCall => calls[i].outcome.val = 10

\* C8: a call of timeit that returned has written exactly one report line,
\* after everything its callable wrote, and went through: start reading,
\* invocation, completion of the callable, end reading, report, return.  A
\* call that has not returned has written no report.
C8_ReportAfterCall ==
    \A i \in DOMAIN calls :
        IF calls[i].state = "returned"
        THEN /\ Cardinality(Reports("call", i)) = 1
             /\ \A a \in Reports("call", i) : \A b \in Texts("call", i) : b < a
             /\ calls[i].ev = <<"start", "invoke", "complete", "end", "report", "return">>
        ELSE Reports("call", i) = {}

\* a returned call of a callable that wrote its two lines
C8_Witness ==
    \E i \in DOMAIN calls :
        /\ calls[i].state = "returned"
        /\ Cardinality(Texts("call", i)) = 2

\* C9: timing operations that overlap with those of another thread report
\* the duration computed from their own start and end readings and return
\* their own callable's result.
C9_ThreadsIndependent ==
    /\ \A i \in DOMAIN calls :
          (calls[i].concurrent /\ calls[i].state = "returned") =>
              /\ calls[i].ms = TimeitMsOf[calls[i].end - calls[i].start]
              /\ \A a \in Reports("call", i) : out[a].ms = calls[i].ms
              /\ calls[i].outcome = Direct(calls[i].f, calls[i].args)
    /\ \A i \in DOMAIN timing :
          (timing[i].concurrent /\ timing[i].state = "destroyed") =>
              /\ timing[i].ms = TimingMsOf[timing[i].end - timing[i].start]
              /\ \A a \in Reports("timing", i) : out[a].ms = timing[i].ms

\* C10: destruction of a Timing instance never fails: when the clock cannot
\* be read the instance reports a zero duration and the teardown goes on.
C10_DtorDegradesToZero ==
    /\ \A t \in Threads : th[t].mode # "terminated"
    /\ \A i \in DOMAIN timing :
          (timing[i].state = "destroyed" /\ ~timing[i].read) =>
              \A a \in Reports("timing", i) : out[a].ms = 0

====
